---------------------------- MODULE Spec2Model ----------------------------
(***************************************************************************)
(* Brightbox compute driver (libcloud/compute/drivers/brightbox.py).       *)
(*                                                                         *)
(* The driver is a stateless facade: every public operation issues one     *)
(* request through the connection and normalizes the answer.  Two          *)
(* specifications are given:                                               *)
(*   SpecNorm  the entity normalizers (_to_node, _to_image, _to_size,      *)
(*             _to_location) applied to payloads drawn from bounded sets;  *)
(*   Spec      the facade operations against a transport whose answers     *)
(*             are chosen by the environment.                              *)
(* JSON objects are functions from key strings to values, JSON arrays are  *)
(* sequences, JSON null is the value Null.                                 *)
(***************************************************************************)
EXTENDS Integers, Sequences, FiniteSets, TLC

VARIABLES
    mockType,   \* BrightboxMockHttp.type: the mode the mock transport is forced into
    token,      \* the connection's cached OAuth token: "none" or "valid"
    wire,       \* the HTTP exchanges of the last facade call, in order
    result,     \* the last facade call: operation, arguments, response, outcome
    input,      \* the payload handed to a normalizer
    output      \* what the normalizer gave back

vars == <<mockType, token, wire, result, input, output>>

---------------------------------------------------------------------------
(* Bounds of the model.                                                    *)

MaxInterfaces == 2
MaxCloudIps == 2
MaxDepth == 2
MaxList == 2

---------------------------------------------------------------------------
(* Values.                                                                 *)

Null == [null |-> TRUE]

Return(v) == [kind |-> "return", value |-> v]
Raise(e) == [kind |-> "raise", error |-> e]

NoInput == [type |-> "none"]
NoOutput == [kind |-> "none"]
NoResult == [op |-> "none"]

Restrict(f, S) == [k \in (S \cap DOMAIN f) |-> f[k]]

RECURSIVE SeqsUpTo(_, _)
SeqsUpTo(S, n) ==
    IF n = 0 THEN {<< >>}
    ELSE LET shorter == SeqsUpTo(S, n - 1)
         IN  shorter \cup {Append(s, e) : s \in {t \in shorter : Len(t) = n - 1}, e \in S}

---------------------------------------------------------------------------
(* The driver's constants.                                                 *)

API_VERSION == "1.0"

OK == 200
ACCEPTED == 202

NODE_STATE_MAP_deleting_terminated ==
    [creating |-> "PENDING", active |-> "RUNNING", inactive |-> "UNKNOWN",
     deleting |-> "TERMINATED", deleted |-> "TERMINATED", failed |-> "UNKNOWN",
     unavailable |-> "UNKNOWN"]

NODE_STATE_MAP ==
    [creating |-> "PENDING", active |-> "RUNNING", inactive |-> "UNKNOWN",
     deleting |-> "UNKNOWN", deleted |-> "TERMINATED", failed |-> "UNKNOWN",
     unavailable |-> "UNKNOWN"]

NodeExtraKeys ==
    {"fqdn", "status", "interfaces", "zone", "snapshots", "server_groups",
     "hostname", "started_at", "created_at", "deleted_at"}

ImageExtraKeys ==
    {"ancestor", "arch", "compatibility_mode", "created_at", "description",
     "disk_size", "min_ram", "official", "owner", "public", "source",
     "source_type", "status", "username", "virtual_size", "licence_name"}

---------------------------------------------------------------------------
(* The normalizers.                                                        *)

_extract_all(d, keys) == d

_extract(d, keys) == [k \in {key \in keys : key \in DOMAIN d} |-> d[k]]

_to_size(data) ==
    IF ~({"id", "name", "ram", "disk_size"} \subseteq DOMAIN data)
    THEN Raise("KeyError")
    ELSE Return([id |-> data["id"], name |-> data["name"], ram |-> data["ram"],
                 disk |-> data["disk_size"], bandwidth |-> 0, price |-> 0])

_to_location(data) ==
    IF ~({"id", "handle"} \subseteq DOMAIN data)
    THEN Raise("KeyError")
    ELSE Return([id |-> data["id"], name |-> data["handle"], country |-> "GB"])

_to_image_raw_ancestor(data) ==
    IF ~({"id", "name"} \subseteq DOMAIN data) THEN Raise("KeyError")
    ELSE Return([id |-> data["id"], name |-> data["name"],
                 extra |-> _extract(data, ImageExtraKeys)])

RECURSIVE _to_image(_)
_to_image(data) ==
    LET extra_data == _extract(data, ImageExtraKeys)
        nested == "ancestor" \in DOMAIN data /\ data["ancestor"] # Null
        ancestor == _to_image(data["ancestor"])
    IN  IF nested /\ ancestor.kind = "raise" THEN ancestor
        ELSE IF ~({"id", "name"} \subseteq DOMAIN data) THEN Raise("KeyError")
        ELSE Return([id |-> data["id"], name |-> data["name"],
                     extra |-> IF nested
                               THEN [extra_data EXCEPT !["ancestor"] = ancestor.value]
                               ELSE extra_data])

private_ips_of(data) ==
    LET carrying == SelectSeq(data["interfaces"],
                              LAMBDA interface : "ipv4_address" \in DOMAIN interface)
    IN  [i \in 1..Len(carrying) |-> carrying[i]["ipv4_address"]]

public_ips_of_interfaces_first(data) ==
    LET carrying == SelectSeq(data["interfaces"],
                              LAMBDA interface : "ipv6_address" \in DOMAIN interface)
    IN  [i \in 1..Len(carrying) |-> carrying[i]["ipv6_address"]]
        \o [i \in 1..Len(data["cloud_ips"]) |-> data["cloud_ips"][i]["public_ip"]]

public_ips_of(data) ==
    LET carrying == SelectSeq(data["interfaces"],
                              LAMBDA interface : "ipv6_address" \in DOMAIN interface)
    IN  [i \in 1..Len(data["cloud_ips"]) |-> data["cloud_ips"][i]["public_ip"]]
        \o [i \in 1..Len(carrying) |-> carrying[i]["ipv6_address"]]

_to_node(data) ==
    IF ~({"id", "name", "status"} \subseteq DOMAIN data) THEN Raise("KeyError")
    ELSE IF data["status"] \notin DOMAIN NODE_STATE_MAP THEN Raise("KeyError")
    ELSE IF "interfaces" \notin DOMAIN data THEN Raise("KeyError")
    ELSE IF \/ "cloud_ips" \notin DOMAIN data
            \/ \E i \in 1..Len(data["cloud_ips"]) :
                   "public_ip" \notin DOMAIN data["cloud_ips"][i]
         THEN Raise("KeyError")
    ELSE IF "server_type" \notin DOMAIN data THEN Raise("KeyError")
    ELSE IF _to_size(data["server_type"]).kind = "raise"
         THEN _to_size(data["server_type"])
    ELSE IF "image" \notin DOMAIN data THEN Raise("KeyError")
    ELSE IF _to_image(data["image"]).kind = "raise" THEN _to_image(data["image"])
    ELSE Return([id |-> data["id"],
                 name |-> data["name"],
                 state |-> NODE_STATE_MAP[data["status"]],
                 private_ips |-> private_ips_of(data),
                 public_ips |-> public_ips_of(data),
                 size |-> _to_size(data["server_type"]).value,
                 image |-> _to_image(data["image"]).value,
                 extra |-> _extract(data, NodeExtraKeys)])

---------------------------------------------------------------------------
(* Provider payloads (the JSON schemas of the server, image, server_type   *)
(* and zone objects), drawn from bounded sets.                             *)

DocumentedStatuses ==
    {"creating", "active", "inactive", "deleting", "deleted", "failed", "unavailable"}

\* "deprecated" is an image status, "archived" is no status of the provider
Statuses == DocumentedStatuses \cup {"deprecated", "archived"}

\* interfaces:[{ipv4_address?, ipv6_address?}]
InterfacePayloads ==
    {[id |-> "int-0"],
     [id |-> "int-1", ipv4_address |-> "10.0.0.1"],
     [id |-> "int-2", ipv6_address |-> "2a02::2"],
     [id |-> "int-3", ipv4_address |-> "10.0.0.3", ipv6_address |-> "2a02::3"]}

\* cloud_ips:[{public_ip}]
CloudIpPayloads ==
    {[id |-> "cip-1", public_ip |-> "109.0.0.1"],
     [id |-> "cip-2", public_ip |-> "109.0.0.2"]}

SizePayloadFull ==
    [id |-> "typ-1", name |-> "Nano", ram |-> 512, disk_size |-> 10240,
     cores |-> 2, handle |-> "nano"]

SizePayloads ==
    {SizePayloadFull,
     Restrict(SizePayloadFull, {"id", "name", "ram", "disk_size"}),
     Restrict(SizePayloadFull, {"id", "name", "ram"})}

ZonePayloadFull == [id |-> "zon-1", handle |-> "gb1-a", resource_type |-> "zone"]

ZonePayloads ==
    {ZonePayloadFull,
     [ZonePayloadFull EXCEPT !["id"] = "zon-2", !["handle"] = "gb1-b"],
     Restrict(ZonePayloadFull, {"id"})}

ImagePayloadFull(id) ==
    [id |-> id, name |-> "Ubuntu", arch |-> "i686", compatibility_mode |-> FALSE,
     created_at |-> "2012-01-22", description |-> "", disk_size |-> 671,
     min_ram |-> Null, official |-> FALSE, owner |-> "acc-1", public |-> TRUE,
     source |-> "oneiric.gz", source_type |-> "upload", status |-> "deprecated",
     username |-> "ubuntu", virtual_size |-> 1025, licence_name |-> "gpl",
     resource_type |-> "image", url |-> "https://api/images"]

\* the keys an image object carries besides ancestor: everything, everything
\* but licence_name and a field outside the schema, and an object lacking its name
ImageShapes ==
    {DOMAIN ImagePayloadFull("img-1"),
     DOMAIN ImagePayloadFull("img-1") \ {"licence_name", "url"},
     {"id", "arch", "status", "resource_type"}}

ImageBases == {Restrict(ImagePayloadFull(id), keys) : id \in {"img-1", "img-2"},
                                                     keys \in ImageShapes}

WithAncestor(base, a) ==
    [k \in DOMAIN base \cup {"ancestor"} |-> IF k = "ancestor" THEN a ELSE base[k]]

\* images whose lineage is at most depth ancestors long
RECURSIVE ImagePayloadsOfDepth(_)
ImagePayloadsOfDepth(depth) ==
    IF depth = 0
    THEN ImageBases \cup {WithAncestor(b, Null) : b \in ImageBases}
    ELSE LET shallower == ImagePayloadsOfDepth(depth - 1)
         IN  shallower \cup {WithAncestor(b, a) : b \in ImageBases, a \in shallower}

ImagePayloads == ImagePayloadsOfDepth(MaxDepth)

\* the images a server object embeds
EmbeddedImagePayloads ==
    {WithAncestor(ImagePayloadFull("img-1"), Null),
     WithAncestor(Restrict(ImagePayloadFull("img-2"), {"id", "name", "arch"}),
                  Restrict(ImagePayloadFull("img-1"), {"id", "name", "status"}))}

ServerPayloadFull(status, interfaces, cloud_ips, image) ==
    [id |-> "srv-1", name |-> "web", status |-> status, interfaces |-> interfaces,
     cloud_ips |-> cloud_ips, server_type |-> SizePayloadFull, image |-> image,
     fqdn |-> "srv-1.gb1.brightbox.com", zone |-> ZonePayloadFull,
     snapshots |-> << >>, server_groups |-> <<"grp-1">>, hostname |-> "srv-1",
     started_at |-> "2012-01-23", created_at |-> "2012-01-22", deleted_at |-> Null,
     account |-> "acc-1", console_url |-> "https://console", user_data |-> ""]

ServerRequiredKeys ==
    {"id", "name", "status", "interfaces", "cloud_ips", "server_type", "image"}

\* the keys a server object carries: everything, the required keys with some of
\* the optional ones, the required keys alone, and an object lacking cloud_ips
ServerShapes ==
    {DOMAIN ServerPayloadFull("active", << >>, << >>, Null),
     ServerRequiredKeys \cup {"fqdn", "zone", "hostname", "account"},
     ServerRequiredKeys,
     (ServerRequiredKeys \ {"cloud_ips"}) \cup {"fqdn", "user_data"}}

ServerPayloads ==
    {Restrict(ServerPayloadFull(status, interfaces, cloud_ips, image), keys) :
        status \in Statuses,
        interfaces \in SeqsUpTo(InterfacePayloads, MaxInterfaces),
        cloud_ips \in SeqsUpTo(CloudIpPayloads, MaxCloudIps),
        image \in EmbeddedImagePayloads,
        keys \in ServerShapes}

---------------------------------------------------------------------------
(* SpecNorm: one payload, one normalizer applied to it.                    *)

Inputs ==
    {[type |-> "server", data |-> d] : d \in ServerPayloads}
    \cup {[type |-> "image", data |-> d] : d \in ImagePayloads}
    \cup {[type |-> "server_type", data |-> d] : d \in SizePayloads}
    \cup {[type |-> "zone", data |-> d] : d \in ZonePayloads}

InitNorm ==
    /\ mockType = "None"
    /\ token = "none"
    /\ wire = << >>
    /\ result = NoResult
    /\ input \in Inputs
    /\ output = NoOutput

NormalizeNode ==
    /\ input.type = "server"
    /\ output = NoOutput
    /\ output' = _to_node(input.data)
    /\ UNCHANGED <<mockType, token, wire, result, input>>

NormalizeImage ==
    /\ input.type = "image"
    /\ output = NoOutput
    /\ output' = _to_image(input.data)
    /\ UNCHANGED <<mockType, token, wire, result, input>>

NormalizeSize ==
    /\ input.type = "server_type"
    /\ output = NoOutput
    /\ output' = _to_size(input.data)
    /\ UNCHANGED <<mockType, token, wire, result, input>>

NormalizeLocation ==
    /\ input.type = "zone"
    /\ output = NoOutput
    /\ output' = _to_location(input.data)
    /\ UNCHANGED <<mockType, token, wire, result, input>>

NextNorm ==
    \/ NormalizeNode
    \/ NormalizeImage
    \/ NormalizeSize
    \/ NormalizeLocation

SpecNorm == InitNorm /\ [][NextNorm]_vars

---------------------------------------------------------------------------
(* The transport: BrightboxConnection and, behind it, the HTTP server.     *)
(* The connection obtains an OAuth token before the first request and      *)
(* reuses it; it classifies every answer: 2xx is handed to the driver,     *)
(* invalid_client and unauthorized_client raise InvalidCredsError, every   *)
(* other answer raises an operation failure.                               *)

AuthFailureModes == {"INVALID_CLIENT", "UNAUTHORIZED_CLIENT"}

AuthErrors == {"invalid_client", "unauthorized_client"}

\* what the server may answer to a request: status code and the error its body names
Answers ==
    {[status |-> 200, error |-> "none"],
     [status |-> 202, error |-> "none"],
     [status |-> 400, error |-> "invalid_client"],
     [status |-> 401, error |-> "unauthorized_client"],
     [status |-> 404, error |-> "missing_resource"],
     [status |-> 500, error |-> "internal_error"]}

Response(answer, object) ==
    [status |-> answer.status, error |-> answer.error, object |-> object]

\* the answer of the token endpoint in each mode of the mock transport
token_answer(type) ==
    CASE type = "None" -> [status |-> 200, error |-> "none"]
      [] type = "INVALID_CLIENT" -> [status |-> 400, error |-> "invalid_client"]
      [] type = "UNAUTHORIZED_CLIENT" -> [status |-> 401, error |-> "unauthorized_client"]

success(response) == response.status >= 200 /\ response.status < 300

parse_error(response) ==
    IF response.error \in AuthErrors
    THEN Raise("InvalidCredsError")
    ELSE Raise("OperationFailure")

Exchange(method, path, data, content_type) ==
    [method |-> method, path |-> path, data |-> data, content_type |-> content_type]

\* connection.request: the exchanges it makes, the token it leaves cached, whether
\* the request itself was sent, the status it was answered with, and the response
\* it returns or the error it raises
connection_request(cached, type, method, path, data, content_type, response) ==
    LET fetch == cached = "none"
        fetched == IF fetch THEN <<Exchange("POST", <<"token">>, Null, "none")>> ELSE << >>
        rejected == fetch /\ token_answer(type).status # OK
    IN  IF rejected
        THEN [wire |-> fetched, token |-> "none", sent |-> FALSE,
              token_exchange |-> token_answer(type).error, status |-> 0,
              reply |-> parse_error(token_answer(type))]
        ELSE [wire |-> Append(fetched, Exchange(method, path, data, content_type)),
              token |-> "valid", sent |-> TRUE,
              token_exchange |-> IF fetch THEN "accepted" ELSE "cached",
              status |-> response.status,
              reply |-> IF success(response) THEN Return(response)
                        ELSE parse_error(response)]

\* a _post that asks again when the request fails
_post_retrying(cached, type, path, data, response) ==
    LET first == connection_request(cached, type, "POST", path, data,
                                    "application/json", response)
        again == connection_request(first.token, type, "POST", path, data,
                                    "application/json", response)
    IN  IF first.reply.kind = "raise"
        THEN [again EXCEPT !.wire = first.wire \o again.wire]
        ELSE first

\* _post: connection.request with the JSON content type and method POST
_post(cached, type, path, data, response) ==
    connection_request(cached, type, "POST", path, data, "application/json", response)

\* a GET or DELETE: connection.request without data or headers
_plain(cached, type, method, path, response) ==
    connection_request(cached, type, method, path, Null, "none", response)

---------------------------------------------------------------------------
(* The facade.                                                             *)

\* list(map(conv, data)), given conv of each element: the first element that
\* fails to normalize raises
NormalizeAll(normalized) ==
    IF \E i \in 1..Len(normalized) : normalized[i].kind = "raise"
    THEN normalized[CHOOSE i \in 1..Len(normalized) :
                        /\ normalized[i].kind = "raise"
                        /\ \A j \in 1..(i - 1) : normalized[j].kind = "return"]
    ELSE Return([i \in 1..Len(normalized) |-> normalized[i].value])

list_nodes_swallowing(reply) ==
    IF reply.kind = "raise" THEN Return(<< >>)
    ELSE NormalizeAll([i \in 1..Len(reply.value.object) |->
                          _to_node(reply.value.object[i])])

list_nodes_returns(reply) ==
    IF reply.kind = "raise" THEN reply
    ELSE NormalizeAll([i \in 1..Len(reply.value.object) |->
                          _to_node(reply.value.object[i])])

list_images_returns(reply) ==
    IF reply.kind = "raise" THEN reply
    ELSE NormalizeAll([i \in 1..Len(reply.value.object) |->
                          _to_image(reply.value.object[i])])

list_sizes_returns(reply) ==
    IF reply.kind = "raise" THEN reply
    ELSE NormalizeAll([i \in 1..Len(reply.value.object) |->
                          _to_size(reply.value.object[i])])

list_locations_returns(reply) ==
    IF reply.kind = "raise" THEN reply
    ELSE NormalizeAll([i \in 1..Len(reply.value.object) |->
                          _to_location(reply.value.object[i])])

create_node_data_zone_optional(kwargs) ==
    LET data == [name |-> kwargs["name"], server_type |-> kwargs["size"].id,
                 image |-> kwargs["image"].id, user_data |-> ""]
    IN  IF "location" \in DOMAIN kwargs
        THEN [k \in DOMAIN data \cup {"zone"} |->
                  IF k = "zone" THEN kwargs["location"].id ELSE data[k]]
        ELSE data

create_node_data(kwargs) ==
    LET data == [name |-> kwargs["name"], server_type |-> kwargs["size"].id,
                 image |-> kwargs["image"].id, user_data |-> ""]
    IN  [k \in DOMAIN data \cup {"zone"} |->
            IF k = "zone"
            THEN IF "location" \in DOMAIN kwargs THEN kwargs["location"].id ELSE ""
            ELSE data[k]]

create_node_returns(reply) ==
    IF reply.kind = "raise" THEN reply ELSE _to_node(reply.value.object)

destroy_node_returns_on_success(reply) ==
    IF reply.kind = "raise" THEN reply ELSE Return(TRUE)

destroy_node_returns(reply) ==
    IF reply.kind = "raise" THEN reply ELSE Return(reply.value.status = ACCEPTED)

ex_list_cloud_ips_returns(reply) ==
    IF reply.kind = "raise" THEN reply ELSE Return(reply.value.object)

ex_create_cloud_ip_returns(reply) ==
    IF reply.kind = "raise" THEN reply ELSE Return(reply.value.object)

ex_map_cloud_ip_returns(reply) ==
    IF reply.kind = "raise" THEN reply ELSE Return(reply.value.status = ACCEPTED)

ex_unmap_cloud_ip_returns(reply) ==
    IF reply.kind = "raise" THEN reply ELSE Return(reply.value.status = ACCEPTED)

ex_destroy_cloud_ip_returns_accepted(reply) ==
    IF reply.kind = "raise" THEN reply ELSE Return(reply.value.status = ACCEPTED)

ex_destroy_cloud_ip_returns(reply) ==
    IF reply.kind = "raise" THEN reply ELSE Return(reply.value.status = OK)

---------------------------------------------------------------------------
(* What the facade is called with and what the server answers with.        *)

FacadeServerPayloads ==
    {ServerPayloadFull("active", <<[id |-> "int-1", ipv4_address |-> "10.0.0.1"]>>,
                       <<[id |-> "cip-1", public_ip |-> "109.0.0.1"]>>,
                       WithAncestor(ImagePayloadFull("img-1"), Null)),
     [Restrict(ServerPayloadFull("creating",
                                 <<[id |-> "int-2", ipv6_address |-> "2a02::2"]>>, << >>,
                                 WithAncestor(ImagePayloadFull("img-1"), Null)),
               ServerRequiredKeys \cup {"fqdn", "hostname", "account"})
          EXCEPT !["id"] = "srv-2"],
     ServerPayloadFull("archived", << >>, << >>,
                       WithAncestor(ImagePayloadFull("img-1"), Null)),
     Restrict(ServerPayloadFull("active", << >>, << >>,
                                WithAncestor(ImagePayloadFull("img-1"), Null)),
              {"id", "status", "interfaces", "cloud_ips", "server_type", "image"})}

FacadeImagePayloads ==
    {WithAncestor(ImagePayloadFull("img-1"), Null),
     WithAncestor(Restrict(ImagePayloadFull("img-2"), {"id", "name", "arch", "url"}),
                  Restrict(ImagePayloadFull("img-1"), {"id", "name", "status"})),
     Restrict(ImagePayloadFull("img-2"), {"id", "arch"})}

Nodes == {[id |-> id, state |-> state] : id \in {"srv-1", "srv-2"},
                                         state \in {"RUNNING", "TERMINATED", "UNKNOWN"}}

CloudIpIds == {"cip-1", "cip-2"}
InterfaceIds == {"int-1", "int-2"}

CreateArguments ==
    LET required == {[name |-> name, size |-> size, image |-> image] :
                        name \in {"Test Node", "db"},
                        size \in {[id |-> "typ-1"], [id |-> "typ-2"]},
                        image \in {[id |-> "img-1"], [id |-> "img-2"]}}
    IN  required
        \cup {[k \in DOMAIN kw \cup {"location"} |->
                  IF k = "location" THEN location ELSE kw[k]] :
                 kw \in required, location \in {[id |-> "zon-1"], [id |-> "zon-2"]}}

\* the server answering POST /servers: the created server, carrying the name asked for
created_server(fixture, body) ==
    [k \in DOMAIN fixture \cup {"name"} |-> IF k = "name" THEN body["name"] ELSE fixture[k]]

---------------------------------------------------------------------------
(* Spec: the facade operations, one action each.                           *)

Init ==
    /\ mockType = "None"
    /\ token = "none"
    /\ wire = << >>
    /\ result = NoResult
    /\ input = NoInput
    /\ output = NoOutput

\* the record of a call: its arguments, what the connection did, the response the driver was handed, and what the caller got
Call(op, args, r, outcome) ==
    [op |-> op, args |-> args, sent |-> r.sent,
     token_exchange |-> r.token_exchange, status |-> r.status,
     response |-> IF r.reply.kind = "return" THEN r.reply.value ELSE Null,
     outcome |-> outcome]

\* the body of an answer: the resource on success, an error document otherwise
Bodies(answer, resources) == IF answer.error = "none" THEN resources ELSE {Null}

list_nodes ==
    \E answer \in Answers :
    \E body \in Bodies(answer, SeqsUpTo(FacadeServerPayloads, MaxList)) :
        LET r == _plain(token, mockType, "GET", <<API_VERSION, "servers">>,
                        Response(answer, body))
        IN  /\ wire' = r.wire
            /\ token' = r.token
            /\ result' = Call("list_nodes", Null, r, list_nodes_returns(r.reply))
            /\ UNCHANGED <<mockType, input, output>>

list_images ==
    \E answer \in Answers :
    \E body \in Bodies(answer, SeqsUpTo(FacadeImagePayloads, MaxList)) :
        LET r == _plain(token, mockType, "GET", <<API_VERSION, "images">>,
                        Response(answer, body))
        IN  /\ wire' = r.wire
            /\ token' = r.token
            /\ result' = Call("list_images", Null, r, list_images_returns(r.reply))
            /\ UNCHANGED <<mockType, input, output>>

list_sizes ==
    \E answer \in Answers :
    \E body \in Bodies(answer, SeqsUpTo(SizePayloads, MaxList)) :
        LET r == _plain(token, mockType, "GET", <<API_VERSION, "server_types">>,
                        Response(answer, body))
        IN  /\ wire' = r.wire
            /\ token' = r.token
            /\ result' = Call("list_sizes", Null, r, list_sizes_returns(r.reply))
            /\ UNCHANGED <<mockType, input, output>>

list_locations ==
    \E answer \in Answers :
    \E body \in Bodies(answer, SeqsUpTo(ZonePayloads, MaxList)) :
        LET r == _plain(token, mockType, "GET", <<API_VERSION, "zones">>,
                        Response(answer, body))
        IN  /\ wire' = r.wire
            /\ token' = r.token
            /\ result' = Call("list_locations", Null, r,
                              list_locations_returns(r.reply))
            /\ UNCHANGED <<mockType, input, output>>

create_node ==
    \E kwargs \in CreateArguments, answer \in Answers :
    \E body \in Bodies(answer, {created_server(fixture, create_node_data(kwargs)) :
                                   fixture \in FacadeServerPayloads}) :
        LET data == create_node_data(kwargs)
            r == _post(token, mockType, <<API_VERSION, "servers">>, data,
                       Response(answer, body))
        IN  /\ wire' = r.wire
            /\ token' = r.token
            /\ result' = Call("create_node", kwargs, r, create_node_returns(r.reply))
            /\ UNCHANGED <<mockType, input, output>>

destroy_node ==
    \E node \in Nodes, answer \in Answers :
        LET r == _plain(token, mockType, "DELETE", <<API_VERSION, "servers", node.id>>,
                        Response(answer, Null))
        IN  /\ wire' = r.wire
            /\ token' = r.token
            /\ result' = Call("destroy_node", node, r, destroy_node_returns(r.reply))
            /\ UNCHANGED <<mockType, input, output>>

\* a reboot_node that does nothing and reports success
reboot_node_silent ==
    \E node \in Nodes :
        /\ wire' = << >>
        /\ result' = [op |-> "reboot_node", args |-> node, sent |-> FALSE,
                      token_exchange |-> "none", status |-> 0, response |-> Null,
                      outcome |-> Return(TRUE)]
        /\ UNCHANGED <<mockType, token, input, output>>

\* NodeDriver.reboot_node, which the driver does not override
reboot_node ==
    \E node \in Nodes :
        /\ wire' = << >>
        /\ result' = [op |-> "reboot_node", args |-> node, sent |-> FALSE,
                      token_exchange |-> "none", status |-> 0, response |-> Null,
                      outcome |-> Raise("NotImplementedError")]
        /\ UNCHANGED <<mockType, token, input, output>>

ex_list_cloud_ips ==
    \E answer \in Answers :
    \E body \in Bodies(answer, SeqsUpTo(CloudIpPayloads, MaxList)) :
        LET r == _plain(token, mockType, "GET", <<API_VERSION, "cloud_ips">>,
                        Response(answer, body))
        IN  /\ wire' = r.wire
            /\ token' = r.token
            /\ result' = Call("ex_list_cloud_ips", Null, r,
                              ex_list_cloud_ips_returns(r.reply))
            /\ UNCHANGED <<mockType, input, output>>

ex_create_cloud_ip ==
    \E answer \in Answers :
    \E body \in Bodies(answer, CloudIpPayloads) :
        LET r == _post(token, mockType, <<API_VERSION, "cloud_ips">>, << >>,
                       Response(answer, body))
        IN  /\ wire' = r.wire
            /\ token' = r.token
            /\ result' = Call("ex_create_cloud_ip", Null, r,
                              ex_create_cloud_ip_returns(r.reply))
            /\ UNCHANGED <<mockType, input, output>>

ex_map_cloud_ip ==
    \E cloud_ip_id \in CloudIpIds, interface_id \in InterfaceIds, answer \in Answers :
        LET r == _post(token, mockType, <<API_VERSION, "cloud_ips", cloud_ip_id, "map">>,
                       [interface |-> interface_id], Response(answer, Null))
        IN  /\ wire' = r.wire
            /\ token' = r.token
            /\ result' = Call("ex_map_cloud_ip", <<cloud_ip_id, interface_id>>, r,
                              ex_map_cloud_ip_returns(r.reply))
            /\ UNCHANGED <<mockType, input, output>>

ex_unmap_cloud_ip ==
    \E cloud_ip_id \in CloudIpIds, answer \in Answers :
        LET r == _post(token, mockType, <<API_VERSION, "cloud_ips", cloud_ip_id, "unmap">>,
                       << >>, Response(answer, Null))
        IN  /\ wire' = r.wire
            /\ token' = r.token
            /\ result' = Call("ex_unmap_cloud_ip", <<cloud_ip_id>>, r,
                              ex_unmap_cloud_ip_returns(r.reply))
            /\ UNCHANGED <<mockType, input, output>>

ex_destroy_cloud_ip ==
    \E cloud_ip_id \in CloudIpIds, answer \in Answers :
        LET r == _plain(token, mockType, "DELETE",
                        <<API_VERSION, "cloud_ips", cloud_ip_id>>, Response(answer, Null))
        IN  /\ wire' = r.wire
            /\ token' = r.token
            /\ result' = Call("ex_destroy_cloud_ip", <<cloud_ip_id>>, r,
                              ex_destroy_cloud_ip_returns(r.reply))
            /\ UNCHANGED <<mockType, input, output>>

\* the test's setUp: the mock transport answers normally, the driver is new
setUp ==
    /\ mockType' = "None"
    /\ token' = "none"
    /\ UNCHANGED <<wire, result, input, output>>

\* the test forces the mock transport into an authentication-failure mode
ForceAuthFailure ==
    /\ token = "none"
    /\ \E type \in AuthFailureModes : mockType' = type
    /\ UNCHANGED <<token, wire, result, input, output>>

\* the cached token expires: the next request fetches a new one
TokenExpires ==
    /\ token = "valid"
    /\ token' = "none"
    /\ UNCHANGED <<mockType, wire, result, input, output>>

Next ==
    \/ list_nodes
    \/ list_images
    \/ list_sizes
    \/ list_locations
    \/ create_node
    \/ destroy_node
    \/ reboot_node
    \/ ex_list_cloud_ips
    \/ ex_create_cloud_ip
    \/ ex_map_cloud_ip
    \/ ex_unmap_cloud_ip
    \/ ex_destroy_cloud_ip
    \/ setUp
    \/ ForceAuthFailure
    \/ TokenExpires

Spec == Init /\ [][Next]_vars

---------------------------------------------------------------------------
(* The documented contract the normalizers are held to.                    *)

ExpectedState(status) ==
    CASE status = "creating" -> "PENDING"
      [] status = "active" -> "RUNNING"
      [] status = "deleted" -> "TERMINATED"
      [] status \in {"inactive", "deleting", "failed", "unavailable"} -> "UNKNOWN"

NodeAllowList ==
    {"fqdn", "status", "interfaces", "zone", "snapshots", "server_groups",
     "hostname", "started_at", "created_at", "deleted_at"}

ImageAllowList ==
    {"ancestor", "arch", "compatibility_mode", "created_at", "description",
     "disk_size", "min_ram", "official", "owner", "public", "source",
     "source_type", "status", "username", "virtual_size", "licence_name"}

\* every image of the lineage carries its id and its name
RECURSIVE ImageWellFormed(_)
ImageWellFormed(d) ==
    /\ {"id", "name"} \subseteq DOMAIN d
    /\ ("ancestor" \in DOMAIN d /\ d["ancestor"] # Null) => ImageWellFormed(d["ancestor"])

ServerWellFormed(d) ==
    /\ ServerRequiredKeys \subseteq DOMAIN d
    /\ \A i \in 1..Len(d["cloud_ips"]) : "public_ip" \in DOMAIN d["cloud_ips"][i]
    /\ {"id", "name", "ram", "disk_size"} \subseteq DOMAIN d["server_type"]
    /\ ImageWellFormed(d["image"])

\* the values of field, of the entries of seq that carry it, in the order of seq
RECURSIVE FieldInOrder(_, _)
FieldInOrder(seq, fld) ==
    IF Len(seq) = 0 THEN << >>
    ELSE (IF fld \in DOMAIN Head(seq) THEN <<Head(seq)[fld]>> ELSE << >>)
         \o FieldInOrder(Tail(seq), fld)

\* img is the Image of payload d: id, name, the allow-listed fields d carries and
\* no other, each copied, but for a nested ancestor, which is the Image of
\* d's ancestor; absentAsNull says what an absent ancestor is to become
RECURSIVE IsImageOf(_, _, _)
IsImageOf(img, d, absentAsNull) ==
    /\ DOMAIN img = {"id", "name", "extra"}
    /\ img.id = d["id"]
    /\ img.name = d["name"]
    /\ \A k \in (ImageAllowList \cap DOMAIN d) \ {"ancestor"} :
          k \in DOMAIN img.extra /\ img.extra[k] = d[k]
    /\ \A k \in DOMAIN img.extra : k \in ImageAllowList /\ (k \in DOMAIN d \/ k = "ancestor")
    /\ IF "ancestor" \notin DOMAIN d
       THEN IF absentAsNull
            THEN "ancestor" \in DOMAIN img.extra /\ img.extra["ancestor"] = Null
            ELSE "ancestor" \notin DOMAIN img.extra
       ELSE /\ "ancestor" \in DOMAIN img.extra
            /\ IF d["ancestor"] = Null
               THEN img.extra["ancestor"] = Null
               ELSE IsImageOf(img.extra["ancestor"], d["ancestor"], absentAsNull)

Normalized(type) == input.type = type /\ output # NoOutput

---------------------------------------------------------------------------
(* Claims about the normalizers, checked under SpecNorm.                   *)

\* C1: a server payload with a documented status normalizes to a Node whose state
\* is the table value (creating->PENDING, active->RUNNING, deleted->TERMINATED,
\* inactive/deleting/failed/unavailable->UNKNOWN); a status outside the documented
\* set makes normalization fail with a propagated error, never a Node.
C1_StatusMapping ==
    (Normalized("server") /\ "status" \in DOMAIN input.data) =>
        LET status == input.data["status"]
        IN  /\ (status \in DocumentedStatuses /\ ServerWellFormed(input.data)) =>
                  /\ output.kind = "return"
                  /\ output.value.state = ExpectedState(status)
            /\ output.kind = "return" =>
                  /\ status \in DocumentedStatuses
                  /\ output.value.state = ExpectedState(status)
            /\ status \notin DocumentedStatuses => output = Raise("KeyError")

C1_Witness ==
    /\ Normalized("server")
    /\ "status" \in DOMAIN input.data
    /\ input.data["status"] = "deleting"
    /\ output.kind = "return"
    /\ output.value.state = "UNKNOWN"

\* C2: the Node's public IPs are the public_ip of each cloud_ips entry in input
\* order followed by the ipv6_address of each interface that carries one in input
\* order; its private IPs are the ipv4_address of each interface that carries one
\* in input order; an interface lacking the field is skipped, not an error.
C2_OrderPreserving ==
    Normalized("server") =>
        /\ (ServerWellFormed(input.data) /\ input.data["status"] \in DocumentedStatuses)
              => output.kind = "return"
        /\ output.kind = "return" =>
              /\ output.value.public_ips =
                     FieldInOrder(input.data["cloud_ips"], "public_ip")
                     \o FieldInOrder(input.data["interfaces"], "ipv6_address")
              /\ output.value.private_ips =
                     FieldInOrder(input.data["interfaces"], "ipv4_address")

C2_Witness ==
    /\ Normalized("server")
    /\ output.kind = "return"
    /\ Len(input.data["interfaces"]) = 2
    /\ DOMAIN input.data["interfaces"][1] = {"id"}
    /\ output.value.public_ips = <<"109.0.0.2", "109.0.0.1", "2a02::3">>
    /\ output.value.private_ips = <<"10.0.0.3">>

\* C3 as stated: a nested ancestor becomes a fully normalized Image, recursively;
\* a null or an absent ancestor gives a null ancestor entry in the extension bag;
\* normalization does not fail.
C3_AbsentAncestorIsNullEntry ==
    Normalized("image") =>
        /\ ImageWellFormed(input.data) => output.kind = "return"
        /\ output.kind = "return" => IsImageOf(output.value, input.data, TRUE)

\* C3 (amended): a nested ancestor becomes a fully normalized Image, recursively;
\* a null ancestor gives a null ancestor entry; an absent ancestor gives no
\* ancestor entry at all; normalization does not fail.
C3_RecursiveAncestor ==
    Normalized("image") =>
        /\ ImageWellFormed(input.data) => output.kind = "return"
        /\ output.kind = "return" => IsImageOf(output.value, input.data, FALSE)

C3_Witness ==
    /\ Normalized("image")
    /\ output.kind = "return"
    /\ "ancestor" \in DOMAIN output.value.extra
    /\ output.value.extra["ancestor"] # Null
    /\ output.value.extra["ancestor"].id = "img-2"
    /\ "ancestor" \in DOMAIN output.value.extra["ancestor"].extra
    /\ output.value.extra["ancestor"].extra["ancestor"] # Null
    /\ "ancestor" \notin DOMAIN output.value.extra["ancestor"].extra["ancestor"].extra

\* C4: the key set of a Node's or an Image's extension bag is exactly the set of
\* the entity's allow-listed fields that the payload carries: a field off the
\* allow-list never appears, an allow-listed field the payload lacks is not added.
C4_AllowList ==
    /\ (Normalized("server") /\ output.kind = "return") =>
          /\ DOMAIN output.value.extra = NodeAllowList \cap DOMAIN input.data
          /\ \A k \in DOMAIN output.value.extra : output.value.extra[k] = input.data[k]
          /\ DOMAIN output.value.image.extra =
                 ImageAllowList \cap DOMAIN input.data["image"]
    /\ (Normalized("image") /\ output.kind = "return") =>
          DOMAIN output.value.extra = ImageAllowList \cap DOMAIN input.data

C4_Witness ==
    /\ Normalized("server")
    /\ output.kind = "return"
    /\ "account" \in DOMAIN input.data
    /\ "deleted_at" \notin DOMAIN input.data
    /\ DOMAIN output.value.extra = {"fqdn", "status", "interfaces", "zone", "hostname"}
    /\ "licence_name" \notin DOMAIN output.value.image.extra

---------------------------------------------------------------------------
(* Claims about the facade, checked under Spec.                            *)

ListOps == {"list_nodes", "list_images", "list_sizes", "list_locations"}

PublicOps ==
    ListOps \cup {"create_node", "destroy_node", "ex_list_cloud_ips",
                  "ex_create_cloud_ip", "ex_map_cloud_ip", "ex_unmap_cloud_ip",
                  "ex_destroy_cloud_ip"}

\* the exchanges of the last call, without and with the token endpoint
Requests == SelectSeq(wire, LAMBDA e : e.path # <<"token">>)
TokenExchanges == SelectSeq(wire, LAMBDA e : e.path = <<"token">>)

LastExchange == wire[Len(wire)]

Is2xx(status) == status \in 200..299

\* C5 as stated: destroy_node issues one DELETE on the node's resource path and
\* returns true on a 202; on any other response, 200 and every non-2xx status
\* included, it returns false.
C5_NonAcceptedReturnsFalse ==
    (result.op = "destroy_node" /\ result.sent) =>
        /\ Len(Requests) = 1
        /\ LastExchange.method = "DELETE"
        /\ LastExchange.path = <<"1.0", "servers", result.args.id>>
        /\ result.status = 202 => result.outcome = Return(TRUE)
        /\ result.status # 202 => result.outcome = Return(FALSE)

\* C5 (amended): destroy_node issues one DELETE on the node's resource path; it
\* returns true on a 202 and false on any other 2xx response (200); a non-2xx
\* response is not turned into false: the connection's error propagates.
C5_DestroyNode ==
    (result.op = "destroy_node" /\ result.sent) =>
        /\ Len(Requests) = 1
        /\ LastExchange.method = "DELETE"
        /\ LastExchange.path = <<"1.0", "servers", result.args.id>>
        /\ result.status = 202 => result.outcome = Return(TRUE)
        /\ (Is2xx(result.status) /\ result.status # 202) => result.outcome = Return(FALSE)
        /\ ~Is2xx(result.status) => result.outcome.kind = "raise"

C5_Witness ==
    /\ result.op = "destroy_node"
    /\ result.sent
    /\ result.status = 200
    /\ result.outcome = Return(FALSE)

\* C6: create_node sends a POST whose payload has exactly the keys name,
\* server_type (size.id), image (image.id), user_data ("") and zone, zone being the
\* location's id when a location is supplied and "" when none is (never omitted);
\* on a 202 it returns the Node normalized from the response body: its name is the
\* echoed requested name, its id the id in the response.
C6_CreateNode ==
    (result.op = "create_node" /\ result.sent) =>
        LET kwargs == result.args
            data == LastExchange.data
        IN  /\ Len(Requests) = 1
            /\ LastExchange.method = "POST"
            /\ LastExchange.path = <<"1.0", "servers">>
            /\ LastExchange.content_type = "application/json"
            /\ DOMAIN data = {"name", "server_type", "image", "user_data", "zone"}
            /\ data["name"] = kwargs["name"]
            /\ data["server_type"] = kwargs["size"].id
            /\ data["image"] = kwargs["image"].id
            /\ data["user_data"] = ""
            /\ data["zone"] = IF "location" \in DOMAIN kwargs
                              THEN kwargs["location"].id ELSE ""
            /\ (/\ result.status = 202
                /\ ServerWellFormed(result.response.object)
                /\ result.response.object["status"] \in DocumentedStatuses) =>
                   result.outcome.kind = "return"
            /\ (result.status = 202 /\ result.outcome.kind = "return") =>
                   /\ result.outcome.value.name = kwargs["name"]
                   /\ result.outcome.value.id = result.response.object["id"]
                   /\ result.outcome.value.state =
                          ExpectedState(result.response.object["status"])
                   /\ DOMAIN result.outcome.value.extra =
                          NodeAllowList \cap DOMAIN result.response.object

C6_Witness ==
    /\ result.op = "create_node"
    /\ result.sent
    /\ "location" \notin DOMAIN result.args
    /\ LastExchange.data["zone"] = ""
    /\ result.status = 202
    /\ result.outcome.kind = "return"
    /\ result.outcome.value.name = "Test Node"
    /\ result.outcome.value.id = "srv-2"

\* C7: reboot_node always raises the not-implemented error, whatever the node's
\* state and whatever was called before, and issues no request.
C7_RebootUnsupported ==
    result.op = "reboot_node" =>
        /\ result.outcome = Raise("NotImplementedError")
        /\ wire = << >>
        /\ ~result.sent

C7_Witness ==
    /\ result.op = "reboot_node"
    /\ result.args.state = "TERMINATED"
    /\ token = "valid"
    /\ result.outcome = Raise("NotImplementedError")

\* C8: ex_map_cloud_ip and ex_unmap_cloud_ip return true exactly when the response
\* status is 202, ex_destroy_cloud_ip exactly when it is 200: a 200 to map/unmap
\* and a 202 to the cloud-IP destroy both give false.
C8_CloudIpAsymmetry ==
    /\ (result.op \in {"ex_map_cloud_ip", "ex_unmap_cloud_ip"} /\ result.sent) =>
          /\ result.outcome = Return(TRUE) <=> result.status = 202
          /\ result.status = 200 => result.outcome = Return(FALSE)
    /\ (result.op = "ex_destroy_cloud_ip" /\ result.sent) =>
          /\ result.outcome = Return(TRUE) <=> result.status = 200
          /\ result.status = 202 => result.outcome = Return(FALSE)

C8_Witness ==
    /\ result.op = "ex_destroy_cloud_ip"
    /\ result.sent
    /\ result.status = 202
    /\ result.outcome = Return(FALSE)

\* C9: when the token exchange is rejected as invalid-client (400) or
\* unauthorized-client (401), each list operation raises the authentication
\* failure on that call: no entities, no generic operation failure.
C9_AuthFailure ==
    (result.op \in ListOps /\ result.token_exchange \in {"invalid_client",
                                                        "unauthorized_client"}) =>
        /\ result.outcome = Raise("InvalidCredsError")
        /\ ~result.sent
        /\ Len(Requests) = 0

C9_Witness ==
    /\ result.op = "list_locations"
    /\ result.token_exchange = "unauthorized_client"
    /\ mockType = "UNAUTHORIZED_CLIENT"
    /\ result.outcome = Raise("InvalidCredsError")

\* the response of the last call cannot be normalized
ResponseMalformed ==
    LET object == result.response.object
    IN  CASE result.op = "list_nodes" ->
                 \E i \in 1..Len(object) :
                     ~(ServerWellFormed(object[i])
                       /\ object[i]["status"] \in DocumentedStatuses)
          [] result.op = "create_node" ->
                 ~(ServerWellFormed(object) /\ object["status"] \in DocumentedStatuses)
          [] result.op = "list_images" ->
                 \E i \in 1..Len(object) : ~ImageWellFormed(object[i])
          [] result.op = "list_sizes" ->
                 \E i \in 1..Len(object) :
                     ~({"id", "name", "ram", "disk_size"} \subseteq DOMAIN object[i])
          [] result.op = "list_locations" ->
                 \E i \in 1..Len(object) : ~({"id", "handle"} \subseteq DOMAIN object[i])
          [] OTHER -> FALSE

\* C10: each public operation issues at most one request per invocation (besides
\* at most one token exchange); when the request fails, or the response does not
\* normalize, the error propagates to the caller and nothing more is requested.
C10_OneRequest ==
    result.op \in PublicOps =>
        /\ Len(Requests) <= 1
        /\ Len(TokenExchanges) <= 1
        /\ Len(wire) = Len(Requests) + Len(TokenExchanges)
        /\ result.sent <=> Len(Requests) = 1
        /\ ~result.sent =>
              /\ result.outcome = Raise("InvalidCredsError")
              /\ Len(TokenExchanges) = 1
        /\ (result.sent /\ ~Is2xx(result.status)) =>
              /\ result.outcome.kind = "raise"
              /\ result.outcome.error \in {"InvalidCredsError", "OperationFailure"}
              /\ result.outcome.error = "InvalidCredsError" <=> result.status \in {400, 401}
        /\ (result.sent /\ Is2xx(result.status)) =>
              IF ResponseMalformed
              THEN result.outcome = Raise("KeyError")
              ELSE result.outcome.kind = "return"

C10_Witness ==
    /\ result.op = "list_nodes"
    /\ result.sent
    /\ Len(wire) = 2
    /\ Is2xx(result.status)
    /\ Len(result.response.object) = 2
    /\ result.outcome = Raise("KeyError")

=============================================================================
